---- MODULE Spec2Model ----
(***************************************************************************)
(* Model of the asynchronous job subsystem of dynamic-mcp-server:          *)
(* the in-memory job registry (jobs), startTaskAsync with its timeout      *)
(* timer, kill escalation and completion callbacks, executeTask, the tool  *)
(* handlers installed by registerConfiguredTools and the check-job-status  *)
(* handler installed by main.                                              *)
(*                                                                         *)
(* JavaScript values are encoded as follows.  A value that may be          *)
(* undefined (exitCode, stdout, stderr of an execa result, the environment *)
(* variable, tool.async) is a sequence of length at most one: <<>> is      *)
(* undefined, <<v>> is v.  null and undefined stored in records are the    *)
(* records Null and Undefined.  An ISO timestamp is [iso |-> ms].  The     *)
(* text of the environment variable is a sequence of one-character         *)
(* strings, so that parseInt can be computed on it.  The human-readable    *)
(* `content` text of a tool response is not part of the model; responses   *)
(* carry structuredContent and isError.                                    *)
(***************************************************************************)
EXTENDS Integers, Sequences, FiniteSets, TLC

VARIABLES
  config,        \* the validated configuration and the --async flag: [serverAsync, tools]
  pc,            \* position of main(): "init" before the tools are registered, "serving" after;
                 \* "crashed" once an exception has escaped a callback (uncaught exception)
  registered,    \* tools registered on the McpServer: tool name -> output shape
  jobs,          \* the job registry (Map jobId -> job record)
  jobIdCounter,  \* the id counter
  now,           \* Date.now()
  env,           \* process.env.DYNAMIC_MCP_JOB_TIMEOUT_MS
  closures,      \* per job: the variables captured by startTaskAsync's callbacks
  syncCalls,     \* sync handlers suspended in `await executeTask(...)`
  response,      \* the response returned by the handler that ran in the last step, if any:
                 \* [tool, request, result], and for a sync tool the outcome of its command
  steps          \* number of events so far

vars == <<config, pc, registered, jobs, jobIdCounter, now, env, closures, syncCalls, response, steps>>

(***************************************************************************)
(* Bounds of the model.                                                    *)
(***************************************************************************)
MaxJobs == 2      \* number of startTaskAsync calls
MaxClock == 1     \* the clock advances in 1 ms steps up to this value (timers may carry it further)
MaxSync == 1      \* number of sync handlers suspended at the same time
MaxSteps == 6     \* number of events (requests, callbacks, clock and environment changes) in a run
MaxTextLen == 3   \* length of the text of the environment variable, where resolveJobTimeoutMs is checked on its own

(***************************************************************************)
(* Program constants.                                                      *)
(***************************************************************************)
DEFAULT_JOB_TIMEOUT_MS == 20 * 60 * 1000
KILL_GRACE_MS == 5000

Null == [null |-> TRUE]
Undefined == [undefined |-> TRUE]

\* x ?? d
Coalesce(x, d) == IF x = <<>> THEN d ELSE x[1]

ToISOString(ms) == [iso |-> ms]

(***************************************************************************)
(* generateJobId: `job_${Date.now()}_${++jobIdCounter}`, given the counter *)
(* value after the increment.                                              *)
(***************************************************************************)
generateJobIdNoCounter(t, counter) == "job_" \o ToString(t)

generateJobId(t, counter) == "job_" \o ToString(t) \o "_" \o ToString(counter)

(***************************************************************************)
(* Number.parseInt(text, 10) on a sequence of characters: leading white    *)
(* space is skipped, an optional sign is read, then the longest prefix of  *)
(* decimal digits; <<>> is NaN.                                            *)
(***************************************************************************)
Digits == <<"0", "1", "2", "3", "4", "5", "6", "7", "8", "9">>
IsDigit(c) == \E i \in 1..10 : Digits[i] = c
DigitVal(c) == (CHOOSE i \in 1..10 : Digits[i] = c) - 1
IsSpace(c) == c \in {" ", "\t", "\n"}

RECURSIVE SkipSpace(_)
SkipSpace(s) == IF s # <<>> /\ IsSpace(Head(s)) THEN SkipSpace(Tail(s)) ELSE s

RECURSIVE DigitPrefix(_, _)
DigitPrefix(s, acc) ==
  IF s # <<>> /\ IsDigit(Head(s))
    THEN DigitPrefix(Tail(s), acc * 10 + DigitVal(Head(s)))
    ELSE acc

parseInt(text) ==
  LET s == SkipSpace(text)
      neg == s # <<>> /\ Head(s) = "-"
      body == IF s # <<>> /\ Head(s) \in {"-", "+"} THEN Tail(s) ELSE s
  IN IF body = <<>> \/ ~IsDigit(Head(body))
       THEN <<>>
       ELSE << (IF neg THEN -1 ELSE 1) * DigitPrefix(body, 0) >>

(***************************************************************************)
(* resolveJobTimeoutMs, on the value e of the environment variable.        *)
(***************************************************************************)
resolveJobTimeoutMsAnyParsed(e) ==
  LET parsed == parseInt(Coalesce(e, <<>>))
  IN IF parsed # <<>> THEN parsed[1] ELSE DEFAULT_JOB_TIMEOUT_MS

resolveJobTimeoutMs(e) ==
  LET parsed == parseInt(Coalesce(e, <<>>))
  IN IF parsed # <<>> /\ parsed[1] > 0 THEN parsed[1] ELSE DEFAULT_JOB_TIMEOUT_MS

(***************************************************************************)
(* Configuration.  A tool is [name, async]; async is <<>> when the tool    *)
(* declares no flag (ConfigSchemas.ConfigTool: z.boolean().optional()).    *)
(***************************************************************************)
PlainTool == [name |-> "plain", async |-> <<>>]
BgTool == [name |-> "bg", async |-> <<TRUE>>]
FgTool == [name |-> "fg", async |-> <<FALSE>>]
ToolLists == { <<PlainTool, FgTool>>, <<BgTool, PlainTool>> }
ToolNames == {"plain", "bg", "fg"}
STATUS_TOOL == "check-job-status"

EnvChoices == { <<>>, << <<"2">> >>, << <<"0">> >> }

(***************************************************************************)
(* What a spawned command can do: the execa promise resolves (reject:      *)
(* false) with exitCode, stdout and stderr, each possibly undefined, or    *)
(* it rejects with an error.                                               *)
(***************************************************************************)
Outcomes ==
  { [kind |-> "resolve", exitCode |-> <<0>>, stdout |-> <<"out">>, stderr |-> <<"">>],
    [kind |-> "resolve", exitCode |-> <<1>>, stdout |-> <<"">>, stderr |-> <<"err">>],
    [kind |-> "resolve", exitCode |-> <<>>, stdout |-> <<>>, stderr |-> <<>>],
    [kind |-> "reject", message |-> "spawn ENOENT"] }

(***************************************************************************)
(* resolveToolAsyncFlag                                                    *)
(***************************************************************************)
resolveToolAsyncFlagOr(tool, serverAsync) == tool.async = <<TRUE>> \/ serverAsync

resolveToolAsyncFlag(tool, serverAsync) ==
  IF tool.async # <<>> THEN tool.async[1] ELSE serverAsync

(***************************************************************************)
(* registerConfiguredTools: the shape registered for every tool and the    *)
(* returned hasAsyncTools.                                                 *)
(***************************************************************************)
ToolShapeDirectOnly(toolAsync) == "direct-result"

ToolShape(toolAsync) == IF toolAsync THEN "job-handle" ELSE "direct-result"

RECURSIVE registerTools(_, _, _)
registerTools(tools, serverAsync, server) ==
  IF tools = <<>>
    THEN server
    ELSE LET tool == Head(tools)
             toolAsync == resolveToolAsyncFlag(tool, serverAsync)
         IN registerTools(Tail(tools), serverAsync,
                          Append(server, [name |-> tool.name, shape |-> ToolShape(toolAsync)]))

hasAsyncToolsServerDefault(tools, serverAsync) == serverAsync

hasAsyncTools(tools, serverAsync) ==
  \E i \in 1..Len(tools) : resolveToolAsyncFlag(tools[i], serverAsync)

IsRegistered(name, shape) ==
  \E i \in 1..Len(registered) : registered[i] = [name |-> name, shape |-> shape]

(***************************************************************************)
(* Init: the state of the process when main() starts.                      *)
(***************************************************************************)
NoResponse == [tool |-> "", request |-> Null, result |-> Null]

Init ==
  /\ config \in [serverAsync : BOOLEAN, tools : ToolLists]
  /\ pc = "init"
  /\ registered = <<>>
  /\ jobs = <<>>
  /\ jobIdCounter = 0
  /\ now = 0
  /\ env \in EnvChoices
  /\ closures = <<>>
  /\ syncCalls = <<>>
  /\ response = NoResponse
  /\ steps = 0

\* one more event in the running process; a behaviour that starts with steps
\* beyond MaxSteps is not cut off (its events are not counted)
Count ==
  /\ pc # "crashed"
  /\ IF steps > MaxSteps THEN steps' = steps
     ELSE steps < MaxSteps /\ steps' = steps + 1

(***************************************************************************)
(* main: registerConfiguredTools, then check-job-status when some tool is  *)
(* async.                                                                  *)
(***************************************************************************)
Main ==
  /\ pc = "init"
  /\ LET server == registerTools(config.tools, config.serverAsync, <<>>)
     IN registered' =
          IF hasAsyncTools(config.tools, config.serverAsync)
            THEN Append(server, [name |-> STATUS_TOOL, shape |-> "job-snapshot"])
            ELSE server
  /\ pc' = "serving"
  /\ Count
  /\ UNCHANGED <<config, jobs, jobIdCounter, now, env, closures, syncCalls, response>>

(***************************************************************************)
(* executeTask: the TaskResult for what the spawned command did.           *)
(***************************************************************************)
executeTaskErrorDropped(outcome) ==
  IF outcome.kind = "resolve"
    THEN [exitCode |-> Coalesce(outcome.exitCode, -1),
          stdout |-> Coalesce(outcome.stdout, ""),
          stderr |-> Coalesce(outcome.stderr, "")]
    ELSE [exitCode |-> -1, stdout |-> "", stderr |-> ""]

executeTask(outcome) ==
  IF outcome.kind = "resolve"
    THEN [exitCode |-> Coalesce(outcome.exitCode, -1),
          stdout |-> Coalesce(outcome.stdout, ""),
          stderr |-> Coalesce(outcome.stderr, "")]
    ELSE [exitCode |-> -1, stdout |-> "", stderr |-> outcome.message]

(***************************************************************************)
(* The registry: jobs.get(jobId) is defined when jobId is a key;           *)
(* jobs.set(jobId, record) inserts or replaces one entry.                  *)
(***************************************************************************)
JobsHas(jobId) == jobId \in DOMAIN jobs
JobsSetAlone(jobId, record) == (jobId :> record)
JobsSet(jobId, record) == (jobId :> record) @@ jobs
ClosureSet(jobId, c) == (jobId :> c) @@ closures

\* job.field, undefined when the record has no such field
Field(job, name) == IF name \in DOMAIN job THEN job[name] ELSE Undefined

(***************************************************************************)
(* startTaskAsync (lines 579-688), the synchronous part: the job record    *)
(* that is inserted, the subprocess that is spawned and the timer that is  *)
(* armed.  The callbacks it installs are the actions below.                *)
(***************************************************************************)
NewJob(toolName, timeoutMs) ==
  [status |-> "running",
   toolName |-> toolName,
   startedAt |-> ToISOString(now),
   result |-> Null,
   timeoutMs |-> timeoutMs]

\* setTimeout(callback, delay): the timer is due `delay` ms from now
SetTimeout(delay) == [state |-> "armed", deadline |-> now + delay]
NoTimer == [state |-> "null", deadline |-> 0]

\* `if (logger) logger[level]("steps", message, {...})`: logger is whether
\* startTaskAsync got a logger; events are the calls it received for the job
Log(c, level, message) ==
  IF c.logger THEN [c EXCEPT !.events = Append(@, [level |-> level, message |-> message])] ELSE c

NewClosure(toolName, timeoutMs, logger) ==
  Log([toolName |-> toolName,
       timeoutMs |-> timeoutMs,
       logger |-> logger,
       events |-> <<>>,
       subprocess |-> [state |-> "running", outcome |-> Null, kills |-> <<>>],
       timeoutId |-> IF timeoutMs > 0 THEN SetTimeout(timeoutMs) ELSE NoTimer,
       killTimer |-> NoTimer],
      "info", "job_started")

startTaskAsyncSpawnFirst(jobId, toolName, logger) ==
  LET timeoutMs == resolveJobTimeoutMs(env)
  IN /\ jobIdCounter' = jobIdCounter + 1
     /\ jobs' = jobs
     /\ closures' = ClosureSet(jobId, NewClosure(toolName, timeoutMs, logger))

startTaskAsync(jobId, toolName, logger) ==
  LET timeoutMs == resolveJobTimeoutMs(env)
  IN /\ jobIdCounter' = jobIdCounter + 1
     /\ jobs' = JobsSet(jobId, NewJob(toolName, timeoutMs))
     /\ closures' = ClosureSet(jobId, NewClosure(toolName, timeoutMs, logger))

(***************************************************************************)
(* The handler of an async tool (lines 765-792): start the job and answer  *)
(* with the job handle.                                                    *)
(***************************************************************************)
\* the logger the tool handler passes: createLogger always returns one
ToolLogger == TRUE

AsyncResponse(jobId) ==
  [structuredContent |->
     [jobId |-> jobId,
      status |-> "running",
      message |-> "Job started. Use 'check-job-status' with jobId '" \o jobId \o "' to check progress."],
   isError |-> FALSE]

InvokeAsyncTool(name) ==
  /\ pc = "serving"
  /\ IsRegistered(name, "job-handle")
  /\ jobIdCounter < MaxJobs
  /\ LET jobId == generateJobId(now, jobIdCounter + 1)
     IN /\ startTaskAsync(jobId, name, ToolLogger)
        /\ response' = [tool |-> name, request |-> Null, result |-> AsyncResponse(jobId)]
  /\ Count
  /\ UNCHANGED <<config, pc, registered, now, env, syncCalls>>

(***************************************************************************)
(* Timers.  The runtime runs the callback of an armed timer no earlier     *)
(* than its deadline and in the order of the deadlines; Date.now() in the  *)
(* callback is at least the deadline.  The handlers of a settled promise   *)
(* run before the clock moves on: a timer can overtake them only when it   *)
(* is already due.                                                         *)
(***************************************************************************)
CompletionPending == \E j \in DOMAIN closures : closures[j].subprocess.state = "settled"
PendingDeadlines ==
  { closures[j].timeoutId.deadline : j \in { k \in DOMAIN closures : closures[k].timeoutId.state = "armed" } }
  \cup { closures[j].killTimer.deadline : j \in { k \in DOMAIN closures : closures[k].killTimer.state = "armed" } }

TimerDue(timer) ==
  /\ timer.state = "armed"
  /\ \A d \in PendingDeadlines : timer.deadline <= d
  /\ timer.deadline <= now \/ ~CompletionPending

Max(a, b) == IF a >= b THEN a ELSE b

(***************************************************************************)
(* The timeout callback (lines 612-648).                                   *)
(***************************************************************************)
IsRunningAnyStatus(jobId) == JobsHas(jobId)

IsRunning(jobId) == JobsHas(jobId) /\ jobs[jobId].status = "running"

TimedOutRecordUnflagged(job, timeoutMs, t) ==
  [status |-> "failed",
   completedAt |-> ToISOString(t),
   result |-> [exitCode |-> -1, stdout |-> "", stderr |-> "Timed out"]] @@ job

TimedOutRecordReresolved(job, timeoutMs, t) ==
  [status |-> "failed",
   completedAt |-> ToISOString(t),
   result |-> [exitCode |-> -1,
               stdout |-> "",
               stderr |-> "Timed out after " \o ToString(timeoutMs) \o "ms"],
   timedOut |-> TRUE,
   timeoutMs |-> resolveJobTimeoutMs(env)] @@ job

TimedOutRecord(job, timeoutMs, t) ==
  [status |-> "failed",
   completedAt |-> ToISOString(t),
   result |-> [exitCode |-> -1,
               stdout |-> "",
               stderr |-> "Timed out after " \o ToString(timeoutMs) \o "ms"],
   timedOut |-> TRUE] @@ job

\* subprocess.kill(signal): the call is recorded with whether the process was
\* still alive and whether the call threw
Kill(subprocess, signal, threw) ==
  [subprocess EXCEPT !.kills =
     Append(@, [signal |-> signal, alive |-> subprocess.state = "running", threw |-> threw])]

\* setTimeout(() => { ... subprocess.kill("SIGKILL") ... }, 5000) at time t
KillTimerNoGrace(t) == [state |-> "armed", deadline |-> t]

KillTimer(t) == [state |-> "armed", deadline |-> t + KILL_GRACE_MS]

\* threw: subprocess.kill("SIGTERM") throws.  The call is not inside a
\* try/catch: the exception leaves the callback before the kill timer is
\* set, and nothing catches it.
\* what the callback of closure c does at time t: the record it writes (none
\* when the job is not running), the closure afterwards, and whether an
\* exception left the callback
timeoutCallbackNeedsLogger(jobId, c, t, threw) ==
  IF ~IsRunning(jobId)
    THEN [write |-> <<>>, closure |-> [c EXCEPT !.timeoutId.state = "fired"], crashed |-> FALSE]
    ELSE IF ~c.logger
      THEN [write |-> << TimedOutRecord(jobs[jobId], c.timeoutMs, t) >>,
            closure |-> [c EXCEPT !.timeoutId.state = "fired"],
            crashed |-> TRUE]
      ELSE [write |-> << TimedOutRecord(jobs[jobId], c.timeoutMs, t) >>,
            closure |-> [Log(c, "warn", "job_timed_out") EXCEPT
                           !.timeoutId.state = "fired",
                           !.subprocess = Kill(c.subprocess, "SIGTERM", threw),
                           !.killTimer = IF threw THEN c.killTimer ELSE KillTimer(t)],
            crashed |-> threw]

timeoutCallback(jobId, c, t, threw) ==
  IF ~IsRunning(jobId)
    THEN [write |-> <<>>, closure |-> [c EXCEPT !.timeoutId.state = "fired"], crashed |-> FALSE]
    ELSE [write |-> << TimedOutRecord(jobs[jobId], c.timeoutMs, t) >>,
          closure |-> [Log(c, "warn", "job_timed_out") EXCEPT
                         !.timeoutId.state = "fired",
                         !.subprocess = Kill(c.subprocess, "SIGTERM", threw),
                         !.killTimer = IF threw THEN c.killTimer ELSE KillTimer(t)],
          crashed |-> threw]

TimeoutCallback(jobId, threw) ==
  /\ jobId \in DOMAIN closures
  /\ TimerDue(closures[jobId].timeoutId)
  /\ now' = Max(now, closures[jobId].timeoutId.deadline)
  /\ IsRunning(jobId) \/ ~threw
  /\ LET done == timeoutCallback(jobId, closures[jobId], now', threw)
     IN /\ jobs' = IF done.write = <<>> THEN jobs ELSE JobsSet(jobId, done.write[1])
        /\ closures' = ClosureSet(jobId, done.closure)
        /\ pc' = IF done.crashed THEN "crashed" ELSE pc
  /\ response' = NoResponse
  /\ Count
  /\ UNCHANGED <<config, registered, jobIdCounter, env, syncCalls>>

(***************************************************************************)
(* The kill escalation (lines 640-646).                                    *)
(***************************************************************************)
\* threw: subprocess.kill("SIGKILL") throws; the catch block swallows it
KillEscalation(jobId, threw) ==
  /\ jobId \in DOMAIN closures
  /\ TimerDue(closures[jobId].killTimer)
  /\ now' = Max(now, closures[jobId].killTimer.deadline)
  /\ LET c == closures[jobId]
     IN closures' = ClosureSet(jobId,
          [c EXCEPT !.killTimer.state = "fired",
                    !.subprocess = Kill(c.subprocess, "SIGKILL", threw)])
  /\ response' = NoResponse
  /\ Count
  /\ UNCHANGED <<config, pc, registered, jobs, jobIdCounter, env, syncCalls>>

(***************************************************************************)
(* finalizeJob (lines 651-675) and the completion handlers (lines          *)
(* 677-685).                                                               *)
(***************************************************************************)
FinalizedRecordNoStamp(job, status, result) ==
  [status |-> status, result |-> result] @@ job

FinalizedRecordFlagged(job, status, result) ==
  [status |-> status, completedAt |-> ToISOString(now), result |-> result, timedOut |-> TRUE] @@ job

FinalizedRecord(job, status, result) ==
  [status |-> status, completedAt |-> ToISOString(now), result |-> result] @@ job

ClearTimeout(timer) == IF timer.state = "armed" THEN [timer EXCEPT !.state = "cleared"] ELSE timer

CompletionStatusMissingIsZero(outcome) ==
  IF outcome.kind = "resolve"
    THEN IF Coalesce(outcome.exitCode, 0) = 0 THEN "completed" ELSE "failed"
    ELSE "failed"

CompletionStatus(outcome) ==
  IF outcome.kind = "resolve"
    THEN IF Coalesce(outcome.exitCode, -1) = 0 THEN "completed" ELSE "failed"
    ELSE "failed"

CompletionResultMessageLost(outcome) ==
  IF outcome.kind = "resolve"
    THEN [exitCode |-> Coalesce(outcome.exitCode, -1),
          stdout |-> Coalesce(outcome.stdout, ""),
          stderr |-> Coalesce(outcome.stderr, "")]
    ELSE [exitCode |-> -1, stdout |-> "", stderr |-> ""]

CompletionResultSwapped(outcome) ==
  IF outcome.kind = "resolve"
    THEN [exitCode |-> Coalesce(outcome.exitCode, -1),
          stdout |-> Coalesce(outcome.stderr, ""),
          stderr |-> Coalesce(outcome.stdout, "")]
    ELSE [exitCode |-> -1, stdout |-> "", stderr |-> outcome.message]

CompletionResult(outcome) ==
  IF outcome.kind = "resolve"
    THEN [exitCode |-> Coalesce(outcome.exitCode, -1),
          stdout |-> Coalesce(outcome.stdout, ""),
          stderr |-> Coalesce(outcome.stderr, "")]
    ELSE [exitCode |-> -1, stdout |-> "", stderr |-> outcome.message]

\* the subprocess promise settles: the command has exited or could not be run
SubprocessSettles(jobId, outcome) ==
  /\ jobId \in DOMAIN closures
  /\ closures[jobId].subprocess.state = "running"
  /\ closures' = ClosureSet(jobId,
       [closures[jobId] EXCEPT !.subprocess.state = "settled", !.subprocess.outcome = outcome])
  /\ response' = NoResponse
  /\ Count
  /\ UNCHANGED <<config, pc, registered, jobs, jobIdCounter, now, env, syncCalls>>

\* what finalizeJob of closure c does: the record it writes (none when the job
\* is not running) and the closure afterwards
finalizeJobOfSilent(jobId, c, status, result) ==
  IF ~IsRunning(jobId)
    THEN [write |-> <<>>, closure |-> [c EXCEPT !.subprocess.state = "handled"]]
    ELSE [write |-> << FinalizedRecord(jobs[jobId], status, result) >>,
          closure |-> [c EXCEPT !.subprocess.state = "handled",
                                !.timeoutId = ClearTimeout(c.timeoutId)]]

finalizeJobOf(jobId, c, status, result) ==
  IF ~IsRunning(jobId)
    THEN [write |-> <<>>, closure |-> [c EXCEPT !.subprocess.state = "handled"]]
    ELSE [write |-> << FinalizedRecord(jobs[jobId], status, result) >>,
          closure |-> [Log(c, IF status = "completed" THEN "info" ELSE "warn", "job_finished")
                         EXCEPT !.subprocess.state = "handled",
                                !.timeoutId = ClearTimeout(c.timeoutId)]]

finalizeJobEveryRunning(jobId, status, result) ==
  LET c == closures[jobId]
  IN /\ jobs' = [k \in DOMAIN jobs |->
                   IF jobs[k].status = "running" THEN FinalizedRecord(jobs[k], status, result)
                   ELSE jobs[k]]
     /\ closures' = ClosureSet(jobId,
          [c EXCEPT !.subprocess.state = "handled",
                    !.timeoutId = ClearTimeout(c.timeoutId)])

finalizeJobUnguarded(jobId, status, result) ==
  LET c == closures[jobId]
  IN /\ jobs' = JobsSet(jobId, FinalizedRecord(jobs[jobId], status, result))
     /\ closures' = ClosureSet(jobId,
          [c EXCEPT !.subprocess.state = "handled",
                    !.timeoutId = ClearTimeout(c.timeoutId)])

finalizeJobKeepTimer(jobId, status, result) ==
  LET c == closures[jobId]
  IN IF ~IsRunning(jobId)
       THEN /\ jobs' = jobs
            /\ closures' = ClosureSet(jobId, [c EXCEPT !.subprocess.state = "handled"])
       ELSE /\ jobs' = JobsSet(jobId, FinalizedRecord(jobs[jobId], status, result))
            /\ closures' = ClosureSet(jobId, [c EXCEPT !.subprocess.state = "handled"])

\* finalizeJob(status, result)
finalizeJob(jobId, status, result) ==
  LET done == finalizeJobOf(jobId, closures[jobId], status, result)
  IN /\ jobs' = IF done.write = <<>> THEN jobs ELSE JobsSet(jobId, done.write[1])
     /\ closures' = ClosureSet(jobId, done.closure)

\* the .then / .catch handler of the subprocess promise runs
CompletionCallback(jobId) ==
  /\ jobId \in DOMAIN closures
  /\ closures[jobId].subprocess.state = "settled"
  /\ finalizeJob(jobId,
                 CompletionStatus(closures[jobId].subprocess.outcome),
                 CompletionResult(closures[jobId].subprocess.outcome))
  /\ response' = NoResponse
  /\ Count
  /\ UNCHANGED <<config, pc, registered, jobIdCounter, now, env, syncCalls>>

(***************************************************************************)
(* The handler of a sync tool (lines 798-823): it suspends in              *)
(* `await executeTask(...)` and answers when the command has finished.     *)
(***************************************************************************)
SyncResponsePositiveOnly(result) == [structuredContent |-> result, isError |-> result.exitCode > 0]

SyncResponse(result) == [structuredContent |-> result, isError |-> result.exitCode # 0]

InvokeSyncToolAsJob(name) ==
  /\ pc = "serving"
  /\ IsRegistered(name, "direct-result")
  /\ Len(syncCalls) < MaxSync
  /\ syncCalls' = Append(syncCalls, [tool |-> name])
  /\ startTaskAsync(generateJobId(now, jobIdCounter + 1), name, ToolLogger)
  /\ response' = NoResponse
  /\ Count
  /\ UNCHANGED <<config, pc, registered, now, env>>

InvokeSyncTool(name) ==
  /\ pc = "serving"
  /\ IsRegistered(name, "direct-result")
  /\ Len(syncCalls) < MaxSync
  /\ syncCalls' = Append(syncCalls, [tool |-> name])
  /\ response' = NoResponse
  /\ Count
  /\ UNCHANGED <<config, pc, registered, jobs, jobIdCounter, now, env, closures>>

SyncToolReturns(i, outcome) ==
  /\ i \in 1..Len(syncCalls)
  /\ response' = [tool |-> syncCalls[i].tool, request |-> Null, command |-> outcome,
                  result |-> SyncResponse(executeTask(outcome))]
  /\ syncCalls' = SubSeq(syncCalls, 1, i - 1) \o SubSeq(syncCalls, i + 1, Len(syncCalls))
  /\ Count
  /\ UNCHANGED <<config, pc, registered, jobs, jobIdCounter, now, env, closures>>

(***************************************************************************)
(* The check-job-status handler (lines 874-948).                           *)
(***************************************************************************)
NotFoundResponseRunning(jobId) ==
  [structuredContent |-> [jobId |-> jobId, status |-> "running"], isError |-> FALSE]

NotFoundResponseAsFailedJob(jobId) ==
  [structuredContent |->
     [jobId |-> jobId,
      status |-> "failed",
      toolName |-> "",
      startedAt |-> Undefined,
      completedAt |-> Undefined,
      result |-> Null],
   isError |-> TRUE]

NotFoundResponse(jobId) ==
  [structuredContent |->
     [jobId |-> jobId, status |-> "failed", error |-> "Job not found: " \o jobId],
   isError |-> TRUE]

SnapshotResponseWithTimedOut(jobId, job) ==
  [structuredContent |->
     [jobId |-> jobId,
      status |-> job.status,
      toolName |-> job.toolName,
      startedAt |-> Field(job, "startedAt"),
      completedAt |-> Field(job, "completedAt"),
      result |-> job.result,
      timedOut |-> "timedOut" \in DOMAIN job],
   isError |-> job.status = "failed"]

SnapshotResponse(jobId, job) ==
  [structuredContent |->
     [jobId |-> jobId,
      status |-> job.status,
      toolName |-> job.toolName,
      startedAt |-> Field(job, "startedAt"),
      completedAt |-> Field(job, "completedAt"),
      result |-> job.result],
   isError |-> job.status = "failed"]

checkJobStatus(jobId) ==
  IF ~JobsHas(jobId) THEN NotFoundResponse(jobId) ELSE SnapshotResponse(jobId, jobs[jobId])

\* ids a client may send: every id handed out so far, and the id the next job
\* would get, which is in the registry only if an id is reused
QueryIds == DOMAIN jobs \cup { generateJobId(now, jobIdCounter + 1) }

CheckJobStatusEvicting(jobId) ==
  /\ pc = "serving"
  /\ IsRegistered(STATUS_TOOL, "job-snapshot")
  /\ jobId \in QueryIds
  /\ response' = [tool |-> STATUS_TOOL, request |-> [jobId |-> jobId], result |-> checkJobStatus(jobId)]
  /\ jobs' = IF JobsHas(jobId) /\ jobs[jobId].status # "running"
              THEN [k \in DOMAIN jobs \ {jobId} |-> jobs[k]]
              ELSE jobs
  /\ Count
  /\ UNCHANGED <<config, pc, registered, jobIdCounter, now, env, closures, syncCalls>>

CheckJobStatus(jobId) ==
  /\ pc = "serving"
  /\ IsRegistered(STATUS_TOOL, "job-snapshot")
  /\ jobId \in QueryIds
  /\ response' = [tool |-> STATUS_TOOL, request |-> [jobId |-> jobId], result |-> checkJobStatus(jobId)]
  /\ Count
  /\ UNCHANGED <<config, pc, registered, jobs, jobIdCounter, now, env, closures, syncCalls>>

(***************************************************************************)
(* The environment: time passes, and the timeout override may be changed   *)
(* (process.env is mutable).                                               *)
(***************************************************************************)
Tick ==
  /\ now < MaxClock
  /\ ~CompletionPending
  /\ now' = now + 1
  /\ response' = NoResponse
  /\ Count
  /\ UNCHANGED <<config, pc, registered, jobs, jobIdCounter, env, closures, syncCalls>>

SetEnv(e) ==
  /\ e \in EnvChoices
  /\ e # env
  /\ env' = e
  /\ response' = NoResponse
  /\ Count
  /\ UNCHANGED <<config, pc, registered, jobs, jobIdCounter, now, closures, syncCalls>>

Next ==
  \/ Main
  \/ \E name \in ToolNames : InvokeAsyncTool(name)
  \/ \E name \in ToolNames : InvokeSyncTool(name)
  \/ \E i \in 1..MaxSync, o \in Outcomes : SyncToolReturns(i, o)
  \/ \E jobId \in DOMAIN closures, o \in Outcomes : SubprocessSettles(jobId, o)
  \/ \E jobId \in DOMAIN closures : CompletionCallback(jobId)
  \/ \E jobId \in DOMAIN closures, threw \in BOOLEAN : TimeoutCallback(jobId, threw)
  \/ \E jobId \in DOMAIN closures, threw \in BOOLEAN : KillEscalation(jobId, threw)
  \/ \E jobId \in QueryIds : CheckJobStatus(jobId)
  \/ Tick
  \/ \E e \in EnvChoices : SetEnv(e)

Spec == Init /\ [][Next]_vars

(***************************************************************************)
(* resolveJobTimeoutMs on its own, as the tests call it (main.test.js      *)
(* lines 162-175): the environment variable is unset or holds a text, and  *)
(* one call returns the budget.                                            *)
(***************************************************************************)
EnvAlphabet == {"0", "3", "-", "+", "x", " "}
EnvTexts == UNION { [1..k -> EnvAlphabet] : k \in 0..MaxTextLen }

InitTimeout ==
  /\ config = [serverAsync |-> FALSE, tools |-> <<PlainTool, FgTool>>]
  /\ pc = "init"
  /\ registered = <<>>
  /\ jobs = <<>>
  /\ jobIdCounter = 0
  /\ now = 0
  /\ env \in {<<>>} \cup { <<text>> : text \in EnvTexts }
  /\ closures = <<>>
  /\ syncCalls = <<>>
  /\ response = NoResponse
  /\ steps = 0

\* const timeoutMs = resolveJobTimeoutMs()
ResolveJobTimeout ==
  /\ response = NoResponse
  /\ response' = [tool |-> "resolveJobTimeoutMs", request |-> Null, result |-> resolveJobTimeoutMs(env)]
  /\ UNCHANGED <<config, pc, registered, jobs, jobIdCounter, now, env, closures, syncCalls, steps>>

NextTimeout == ResolveJobTimeout

SpecTimeout == InitTimeout /\ [][NextTimeout]_vars

(***************************************************************************)
(* The command line of the external command (lines 39-52, 552-563 and      *)
(* 598-608).  Both executeTask and startTaskAsync build                    *)
(* [...baseArgs, task], put "--model", modelId in front when modelId is    *)
(* truthy, and call execa once.  modelId is <<>> when the configuration    *)
(* has none (z.string().optional()).                                       *)
(***************************************************************************)
CLI_CONFIG ==
  [claude |-> [command |-> "claude",
               baseArgs |-> <<"--dangerously-skip-permissions", "-p">>],
   codex |-> [command |-> "codex",
              baseArgs |-> <<"--dangerously-bypass-approvals-and-sandbox", "--search", "exec",
                             "--dangerously-bypass-approvals-and-sandbox", "--skip-git-repo-check">>],
   gemini |-> [command |-> "gemini", baseArgs |-> <<"-y", "-p">>]]
Models == DOMAIN CLI_CONFIG
ModelIds == { <<>>, <<"">>, <<"gemini-pro">> }
Tasks == { "test prompt", "", "--model" }

\* if (modelId): undefined and the empty string are falsy
Truthy(modelId) == modelId # <<>> /\ modelId[1] # ""

executeTaskArgsModelLast(model, modelId, task) ==
  LET args == Append(CLI_CONFIG[model].baseArgs, task)
  IN IF Truthy(modelId) THEN args \o <<"--model", modelId[1]>> ELSE args

executeTaskArgs(model, modelId, task) ==
  LET args == Append(CLI_CONFIG[model].baseArgs, task)
  IN IF Truthy(modelId) THEN <<"--model", modelId[1]>> \o args ELSE args

startTaskAsyncArgs(model, modelId, task) ==
  LET args == Append(CLI_CONFIG[model].baseArgs, task)
  IN IF Truthy(modelId) THEN <<"--model", modelId[1]>> \o args ELSE args

\* execa(cliConfig.command, args, {...})
Execa(model, args) == [command |-> CLI_CONFIG[model].command, args |-> args]

InitArgs ==
  /\ config \in [model : Models, modelId : ModelIds, serverAsync : BOOLEAN, tools : ToolLists]
  /\ pc = "init"
  /\ registered = <<>>
  /\ jobs = <<>>
  /\ jobIdCounter = 0
  /\ now = 0
  /\ env = <<>>
  /\ closures = <<>>
  /\ syncCalls = <<>>
  /\ response = NoResponse
  /\ steps = 0

\* one call of executeTask: the execa calls it makes
ExecuteTaskSpawns(task) ==
  /\ response = NoResponse
  /\ response' = [tool |-> "executeTask", request |-> [task |-> task],
                  result |-> << Execa(config.model, executeTaskArgs(config.model, config.modelId, task)) >>]
  /\ UNCHANGED <<config, pc, registered, jobs, jobIdCounter, now, env, closures, syncCalls, steps>>

\* one call of startTaskAsync: the execa calls it makes
StartTaskAsyncSpawns(task) ==
  /\ response = NoResponse
  /\ response' = [tool |-> "startTaskAsync", request |-> [task |-> task],
                  result |-> << Execa(config.model, startTaskAsyncArgs(config.model, config.modelId, task)) >>]
  /\ UNCHANGED <<config, pc, registered, jobs, jobIdCounter, now, env, closures, syncCalls, steps>>

NextArgs ==
  \/ \E task \in Tasks : ExecuteTaskSpawns(task)
  \/ \E task \in Tasks : StartTaskAsyncSpawns(task)

SpecArgs == InitArgs /\ [][NextArgs]_vars

(***************************************************************************)
(* The logging configuration (lines 18-33, 190-294).  A logging section    *)
(* (of the configuration file, of the CLI arguments, of a tool) is a       *)
(* record of the seven settings, each <<>> when absent and <<v>> when      *)
(* given.  A categories value is the sequence of its items: the array of   *)
(* the configuration file, or the text of the environment or CLI split at  *)
(* its commas.  payloadMaxChars of the resolved configuration is <<>> for  *)
(* null.                                                                   *)
(***************************************************************************)
LOG_LEVEL_ORDER == <<"error", "warn", "info", "debug", "trace">>
LOG_CATEGORY_VALUES == <<"requests", "responses", "steps">>
DEFAULT_LOGGING ==
  [enabled |-> TRUE, level |-> "info", format |-> "json", destination |-> "stderr",
   categories |-> LOG_CATEGORY_VALUES, logPayloads |-> FALSE, payloadMaxChars |-> <<>>]
Settings == DOMAIN DEFAULT_LOGGING
NoLogging == [s \in Settings |-> <<>>]

SeqRange(q) == { q[i] : i \in 1..Len(q) }

\* value.trim() and value.toLowerCase(), on the texts that occur as settings
TrimText(text) ==
  CASE text = " DEBUG " -> "DEBUG"
    [] text = " Steps" -> "Steps"
    [] text = " stdout " -> "stdout"
    [] text = "  " -> ""
    [] OTHER -> text
LowerText(text) ==
  CASE text = "DEBUG" -> "debug"
    [] text = "OFF" -> "off"
    [] text = "Pretty" -> "pretty"
    [] text = "Steps" -> "steps"
    [] text = "TRUE" -> "true"
    [] OTHER -> text
TrimLower(text) == LowerText(TrimText(text))

parseBooleanEnv(value) ==
  IF value = <<>> THEN <<>>
  ELSE IF TrimLower(value[1]) \in {"1", "true", "yes", "on"} THEN <<TRUE>>
  ELSE IF TrimLower(value[1]) \in {"0", "false", "no", "off"} THEN <<FALSE>>
  ELSE <<>>

normalizeLogLevel(value) ==
  IF value = <<>> THEN <<>>
  ELSE IF TrimLower(value[1]) = "off" THEN <<"off">>
  ELSE IF TrimLower(value[1]) \in SeqRange(LOG_LEVEL_ORDER) THEN <<TrimLower(value[1])>>
  ELSE <<>>

normalizeLogFormat(value) ==
  IF value # <<>> /\ TrimLower(value[1]) \in {"json", "pretty"} THEN <<TrimLower(value[1])>> ELSE <<>>

normalizeLogCategories(value) ==
  IF value = <<>> THEN <<>>
  ELSE LET IsText(item) == item # ""
           IsCategory(item) == item \in SeqRange(LOG_CATEGORY_VALUES)
           normalized == SelectSeq([i \in 1..Len(value[1]) |-> TrimLower(value[1][i])], IsText)
           categories == SelectSeq(normalized, IsCategory)
       IN IF "all" \in SeqRange(normalized) THEN <<LOG_CATEGORY_VALUES>>
          ELSE IF Len(categories) > 0 THEN <<categories>>
          ELSE <<>>

\* the record of the settings that are given, e.g. [level |-> "warn"]
Override(setting, value) == IF value = <<>> THEN <<>> ELSE setting :> value[1]

normalizeLoggingOverrides(input) ==
  Override("enabled", input.enabled)
    @@ Override("logPayloads", input.logPayloads)
    @@ Override("level", normalizeLogLevel(input.level))
    @@ Override("format", normalizeLogFormat(input.format))
    @@ Override("destination",
                IF input.destination # <<>> /\ TrimText(input.destination[1]) # ""
                  THEN <<TrimText(input.destination[1])>> ELSE <<>>)
    @@ Override("categories", normalizeLogCategories(input.categories))
    @@ Override("payloadMaxChars",
                IF input.payloadMaxChars # <<>> /\ input.payloadMaxChars[1] > 0
                  THEN << <<input.payloadMaxChars[1]>> >> ELSE <<>>)

\* the environment variables DYNAMIC_MCP_LOG_*, each <<>> when unset; the
\* text of DYNAMIC_MCP_LOG_PAYLOAD_MAX_CHARS is a sequence of characters
envOverrides(e) ==
  [enabled |-> parseBooleanEnv(e.enabled),
   level |-> e.level,
   format |-> e.format,
   destination |-> e.destination,
   categories |-> e.categories,
   logPayloads |-> parseBooleanEnv(e.logPayloads),
   payloadMaxChars |-> parseInt(Coalesce(e.payloadMaxChars, <<>>))]

resolveLoggingConfigCliFirst(configLogging, cliLogging, logDisabled, e) ==
  LET merged == normalizeLoggingOverrides(envOverrides(e))
                  @@ normalizeLoggingOverrides(cliLogging)
                  @@ normalizeLoggingOverrides(configLogging)
                  @@ DEFAULT_LOGGING
      resolved == IF logDisabled \/ merged.level = "off"
                    THEN [merged EXCEPT !.enabled = FALSE]
                    ELSE merged
  IN [disabledByCli |-> logDisabled] @@ resolved

resolveLoggingConfigIgnoresFlag(configLogging, cliLogging, logDisabled, e) ==
  LET merged == normalizeLoggingOverrides(cliLogging)
                  @@ normalizeLoggingOverrides(envOverrides(e))
                  @@ normalizeLoggingOverrides(configLogging)
                  @@ DEFAULT_LOGGING
      resolved == IF merged.level = "off"
                    THEN [merged EXCEPT !.enabled = FALSE]
                    ELSE merged
  IN [disabledByCli |-> FALSE] @@ resolved

resolveLoggingConfig(configLogging, cliLogging, logDisabled, e) ==
  LET merged == normalizeLoggingOverrides(cliLogging)
                  @@ normalizeLoggingOverrides(envOverrides(e))
                  @@ normalizeLoggingOverrides(configLogging)
                  @@ DEFAULT_LOGGING
      resolved == IF logDisabled \/ merged.level = "off"
                    THEN [merged EXCEPT !.enabled = FALSE]
                    ELSE merged
  IN [disabledByCli |-> logDisabled] @@ resolved

resolveToolLoggingConfig(baseConfig, toolLogging) ==
  IF baseConfig.disabledByCli
    THEN [baseConfig EXCEPT !.enabled = FALSE]
    ELSE LET overrides == normalizeLoggingOverrides(toolLogging)
             merged == overrides @@ baseConfig
             enabled == IF "enabled" \in DOMAIN overrides THEN overrides.enabled ELSE baseConfig.enabled
         IN [merged EXCEPT !.enabled =
               IF "level" \in DOMAIN overrides /\ overrides.level = "off" THEN FALSE ELSE enabled]

(***************************************************************************)
(* What the configuration file, the environment, the CLI arguments and a   *)
(* tool's logging section may say about one setting.  The configuration    *)
(* file is validated by ConfigSchemas.Logging; the environment and the CLI *)
(* hold texts (parseCliArgs sets no `enabled`, sets logPayloads only to    *)
(* true and payloadMaxChars only to a positive integer).                   *)
(***************************************************************************)
RawConfig ==
  [enabled |-> {<<>>, <<TRUE>>, <<FALSE>>},
   level |-> {<<>>, <<"warn">>, <<"off">>},
   format |-> {<<>>, <<"pretty">>},
   destination |-> {<<>>, <<"/tmp/a.log">>},
   categories |-> {<<>>, << <<"all">> >>, << <<"steps">> >>, << <<>> >>},
   logPayloads |-> {<<>>, <<TRUE>>, <<FALSE>>},
   payloadMaxChars |-> {<<>>, <<100>>}]
RawEnv ==
  [enabled |-> {<<>>, <<"TRUE">>, <<"0">>, <<"maybe">>},
   level |-> {<<>>, <<" DEBUG ">>, <<"loud">>, <<"OFF">>},
   format |-> {<<>>, <<"Pretty">>, <<"xml">>},
   destination |-> {<<>>, <<" stdout ">>, <<"  ">>},
   categories |-> {<<>>, << <<"requests", " Steps">> >>, << <<"bogus">> >>},
   logPayloads |-> {<<>>, <<"on">>, <<"maybe">>},
   payloadMaxChars |-> {<<>>, << <<"5", "0">> >>, << <<"x">> >>, << <<"0">> >>, << <<"7", "x">> >>}]
RawCli ==
  [enabled |-> {<<>>},
   level |-> {<<>>, <<"error">>, <<"loud">>},
   format |-> {<<>>, <<"json">>, <<"xml">>},
   destination |-> {<<>>, <<"stderr">>},
   categories |-> {<<>>, << <<"responses">> >>, << <<"bogus">> >>},
   logPayloads |-> {<<>>, <<TRUE>>},
   payloadMaxChars |-> {<<>>, <<20>>}]
RawTool ==
  [enabled |-> {<<>>, <<TRUE>>, <<FALSE>>},
   level |-> {<<>>, <<"trace">>, <<"off">>},
   format |-> {<<>>, <<"pretty">>},
   destination |-> {<<>>, <<"/tmp/tool.log">>},
   categories |-> {<<>>, << <<"steps">> >>},
   logPayloads |-> {<<>>, <<TRUE>>},
   payloadMaxChars |-> {<<>>, <<7>>}]

\* the inputs of one start of the server: one setting is given by any of the
\* sources; next to it the configuration file may switch the level off and
\* the tool may say enabled: true
LoggingCases ==
  UNION { { [logging |-> [[NoLogging EXCEPT ![s] = c] EXCEPT !.level = IF s = "level" THEN c ELSE l],
             env |-> [NoLogging EXCEPT ![s] = e],
             loggingArgs |-> [NoLogging EXCEPT ![s] = a],
             logDisabled |-> d,
             toolLogging |-> [[NoLogging EXCEPT ![s] = t] EXCEPT !.enabled = IF s = "enabled" THEN t ELSE on]] :
             c \in RawConfig[s], e \in RawEnv[s], a \in RawCli[s], t \in RawTool[s],
             l \in {<<>>, <<"off">>}, on \in {<<>>, <<TRUE>>}, d \in BOOLEAN } :
          s \in Settings }

InitLogging ==
  /\ \E case \in LoggingCases :
       /\ config = [logging |-> case.logging, loggingArgs |-> case.loggingArgs,
                    logDisabled |-> case.logDisabled, toolLogging |-> case.toolLogging]
       /\ env = case.env
  /\ pc = "init"
  /\ registered = <<>>
  /\ jobs = <<>>
  /\ jobIdCounter = 0
  /\ now = 0
  /\ closures = <<>>
  /\ syncCalls = <<>>
  /\ response = NoResponse
  /\ steps = 0

\* main: resolveLoggingConfig(validatedConfig.logging, loggingArgs, logDisabled),
\* then registerConfiguredTools: resolveToolLoggingConfig(loggingConfig, tool.logging)
ResolveLogging ==
  /\ response = NoResponse
  /\ LET loggingConfig == resolveLoggingConfig(config.logging, config.loggingArgs, config.logDisabled, env)
     IN response' = [tool |-> "resolveLoggingConfig", request |-> Null,
                     result |-> [server |-> loggingConfig,
                                 tool |-> resolveToolLoggingConfig(loggingConfig, config.toolLogging)]]
  /\ UNCHANGED <<config, pc, registered, jobs, jobIdCounter, now, env, closures, syncCalls, steps>>

NextLogging == ResolveLogging

SpecLogging == InitLogging /\ [][NextLogging]_vars

(***************************************************************************)
(* The task prompt.  A template is the sequence of its pieces, a literal   *)
(* text or a {{key}} placeholder; null is <<>> and a value is <<v>>, so    *)
(* the empty text read from an empty prompt file is << <<>> >> for a       *)
(* template and <<"">> for a prefix.  A parameter value is [str |-> text]  *)
(* or [num |-> n].                                                         *)
(***************************************************************************)
Lit(text) == [text |-> text]
Var(key) == [key |-> key]
StringOf(v) == IF "str" \in DOMAIN v THEN v.str ELSE ToString(v.num)
JSONValue(v) == IF "str" \in DOMAIN v THEN "\"" \o v.str \o "\"" ELSE ToString(v.num)

\* String(params[key] ?? "")
ParamText(params, key) == IF key \in DOMAIN params THEN StringOf(params[key]) ELSE ""

RECURSIVE substitutePieces(_, _)
substitutePieces(pieces, params) ==
  IF pieces = <<>> THEN ""
  ELSE LET piece == Head(pieces)
           text == IF "key" \in DOMAIN piece THEN ParamText(params, piece.key) ELSE piece.text
       IN text \o substitutePieces(Tail(pieces), params)
substitutePromptVariables(template, params) ==
  substitutePieces(IF template = <<>> THEN <<>> ELSE template[1], params)

\* JSON.stringify of the parameters, keys in the order of the input schema
RECURSIVE JSONMembers(_, _, _)
JSONMembers(inputs, params, first) ==
  IF inputs = <<>> THEN ""
  ELSE LET name == Head(inputs).name
       IN IF name \in DOMAIN params
            THEN (IF first THEN "" ELSE ",") \o "\"" \o name \o "\":" \o JSONValue(params[name])
                   \o JSONMembers(Tail(inputs), params, FALSE)
            ELSE JSONMembers(Tail(inputs), params, first)
JSONStringify(inputs, params) == "{" \o JSONMembers(inputs, params, TRUE) \o "}"

StringInputs(tool) == SelectSeq(tool.inputs, LAMBDA input : input.type = "string")
TruthyTemplate(toolPromptTemplate) == toolPromptTemplate # <<>> /\ toolPromptTemplate[1] # <<>>

buildTaskPromptJsonFirst(tool, toolPromptTemplate, toolParams, promptPrefix) ==
  LET task == IF TruthyTemplate(toolPromptTemplate)
                THEN substitutePromptVariables(toolPromptTemplate, toolParams)
                ELSE JSONStringify(tool.inputs, toolParams)
  IN IF Truthy(promptPrefix) THEN promptPrefix[1] \o "\n" \o task ELSE task
buildTaskPrompt(tool, toolPromptTemplate, toolParams, promptPrefix) ==
  LET task == IF TruthyTemplate(toolPromptTemplate)
                THEN substitutePromptVariables(toolPromptTemplate, toolParams)
                ELSE IF StringInputs(tool) # <<>>
                       THEN ParamText(toolParams, StringInputs(tool)[1].name)
                       ELSE JSONStringify(tool.inputs, toolParams)
  IN IF Truthy(promptPrefix) THEN promptPrefix[1] \o "\n" \o task ELSE task

PromptTools ==
  { [inputs |-> << [name |-> "name", type |-> "string", required |-> TRUE] >>],
    [inputs |-> << [name |-> "count", type |-> "number", required |-> TRUE],
                   [name |-> "query", type |-> "string", required |-> FALSE],
                   [name |-> "name", type |-> "string", required |-> TRUE] >>],
    [inputs |-> << [name |-> "count", type |-> "number", required |-> TRUE] >>],
    [inputs |-> <<>>] }
PromptTemplates ==
  { <<>>, << <<>> >>, << <<Lit("Hello "), Var("name")>> >>,
    << <<Var("count"), Lit(" for "), Var("missing"), Lit("!")>> >> }
PromptPrefixes == { <<>>, <<"">>, <<"Prefix">> }
ParamValues == [string |-> {[str |-> "Ada"], [str |-> ""]}, number |-> {[num |-> 2]}]

\* the parameter objects the input schema of the tool lets through: every
\* required input is present, every value has the declared type
RECURSIVE ToolParams(_)
ToolParams(inputs) ==
  IF inputs = <<>> THEN { <<>> }
  ELSE LET input == Head(inputs)
           rest == ToolParams(Tail(inputs))
       IN { (input.name :> v) @@ r : v \in ParamValues[input.type], r \in rest }
            \cup (IF input.required THEN {} ELSE rest)

InitPrompt ==
  /\ config \in [tool : PromptTools, toolPromptTemplate : PromptTemplates, promptPrefix : PromptPrefixes]
  /\ pc = "init"
  /\ registered = <<>>
  /\ jobs = <<>>
  /\ jobIdCounter = 0
  /\ now = 0
  /\ env = <<>>
  /\ closures = <<>>
  /\ syncCalls = <<>>
  /\ response = NoResponse
  /\ steps = 0

\* the tool handler composing the task of one invocation
BuildTaskPrompt(toolParams) ==
  /\ response = NoResponse
  /\ response' = [tool |-> "buildTaskPrompt", request |-> toolParams,
                  result |-> buildTaskPrompt(config.tool, config.toolPromptTemplate,
                                             toolParams, config.promptPrefix)]
  /\ UNCHANGED <<config, pc, registered, jobs, jobIdCounter, now, env, closures, syncCalls, steps>>

NextPrompt == \E toolParams \in ToolParams(config.tool.inputs) : BuildTaskPrompt(toolParams)

SpecPrompt == InitPrompt /\ [][NextPrompt]_vars

(***************************************************************************)
(* Jobs started under any text of the environment override: the server is  *)
(* serving and an async tool is invoked (lines 765-792, 579-612).           *)
(***************************************************************************)
InitBudget ==
  /\ config = [serverAsync |-> TRUE, tools |-> <<BgTool, PlainTool>>]
  /\ pc = "serving"
  /\ registered = Append(registerTools(config.tools, config.serverAsync, <<>>),
                         [name |-> STATUS_TOOL, shape |-> "job-snapshot"])
  /\ jobs = <<>>
  /\ jobIdCounter = 0
  /\ now = 0
  /\ env \in {<<>>} \cup { <<text>> : text \in EnvTexts }
  /\ closures = <<>>
  /\ syncCalls = <<>>
  /\ response = NoResponse
  /\ steps = 0

StartTaskAsync(name) ==
  /\ IsRegistered(name, "job-handle")
  /\ jobIdCounter < MaxJobs
  /\ LET jobId == generateJobId(now, jobIdCounter + 1)
     IN /\ startTaskAsync(jobId, name, ToolLogger)
        /\ response' = [tool |-> name, request |-> Null, result |-> AsyncResponse(jobId)]
  /\ UNCHANGED <<config, pc, registered, now, env, syncCalls, steps>>

NextBudget == \E name \in ToolNames : StartTaskAsync(name)

SpecBudget == InitBudget /\ [][NextBudget]_vars

(***************************************************************************)
(* startTaskAsync called directly, with a logger or with null (as the      *)
(* tests of startTaskAsync do), and the callbacks of the jobs it started.  *)
(***************************************************************************)
Loggers == BOOLEAN

InitJobLogger ==
  /\ config = [serverAsync |-> FALSE, tools |-> <<BgTool, PlainTool>>]
  /\ pc = "serving"
  /\ registered = Append(registerTools(config.tools, config.serverAsync, <<>>),
                         [name |-> STATUS_TOOL, shape |-> "job-snapshot"])
  /\ jobs = <<>>
  /\ jobIdCounter = 0
  /\ now = 0
  /\ env \in EnvChoices
  /\ closures = <<>>
  /\ syncCalls = <<>>
  /\ response = NoResponse
  /\ steps = 0

StartTaskAsyncWith(toolName, logger) ==
  /\ jobIdCounter < MaxJobs
  /\ startTaskAsync(generateJobId(now, jobIdCounter + 1), toolName, logger)
  /\ response' = NoResponse
  /\ Count
  /\ UNCHANGED <<config, pc, registered, now, env, syncCalls>>

NextJobLogger ==
  \/ \E logger \in Loggers : StartTaskAsyncWith("bg", logger)
  \/ \E jobId \in DOMAIN closures, o \in Outcomes : SubprocessSettles(jobId, o)
  \/ \E jobId \in DOMAIN closures : CompletionCallback(jobId)
  \/ \E jobId \in DOMAIN closures, threw \in BOOLEAN : TimeoutCallback(jobId, threw)
  \/ \E jobId \in DOMAIN closures, threw \in BOOLEAN : KillEscalation(jobId, threw)
  \/ Tick

SpecJobLogger == InitJobLogger /\ [][NextJobLogger]_vars

(***************************************************************************)
(* The serving process over unboundedly many events: clients start jobs    *)
(* until the clock reaches MaxClock and poll any id at any time.  Fairness *)
(* is what the runtime gives: an armed timer due first eventually fires,   *)
(* the handler of a settled promise eventually runs, and the caller keeps  *)
(* polling every id.  A subprocess need never exit: no fairness on         *)
(* SubprocessSettles.                                                      *)
(***************************************************************************)
InitLive ==
  /\ config = [serverAsync |-> FALSE, tools |-> <<BgTool, PlainTool>>]
  /\ pc = "serving"
  /\ registered = Append(registerTools(config.tools, config.serverAsync, <<>>),
                         [name |-> STATUS_TOOL, shape |-> "job-snapshot"])
  /\ jobs = <<>>
  /\ jobIdCounter = 0
  /\ now = 0
  /\ env \in EnvChoices
  /\ closures = <<>>
  /\ syncCalls = <<>>
  /\ response = NoResponse
  /\ steps = MaxSteps + 1

LiveIds == { generateJobId(t, n) : t \in 0..MaxClock, n \in 1..MaxJobs }

StartJobLive == now <= MaxClock /\ InvokeAsyncTool("bg")
TimersFire == \E jobId \in DOMAIN closures, threw \in BOOLEAN : TimeoutCallback(jobId, threw)
EscalationsFire == \E jobId \in DOMAIN closures, threw \in BOOLEAN : KillEscalation(jobId, threw)
HandlersRun == \E jobId \in DOMAIN closures : CompletionCallback(jobId)

NextLive ==
  \/ StartJobLive
  \/ \E jobId \in DOMAIN closures, o \in Outcomes : SubprocessSettles(jobId, o)
  \/ HandlersRun
  \/ TimersFire
  \/ EscalationsFire
  \/ \E jobId \in LiveIds : CheckJobStatus(jobId)
  \/ Tick

SpecLive ==
  /\ InitLive
  /\ [][NextLive]_vars
  /\ WF_vars(TimersFire)
  /\ WF_vars(EscalationsFire)
  /\ WF_vars(HandlersRun)
  /\ \A jobId \in LiveIds : WF_vars(CheckJobStatus(jobId))

(***************************************************************************)
(* Properties.                                                             *)
(***************************************************************************)
Terminal == {"completed", "failed"}
CompletionRan(j) ==
  closures[j].subprocess.state = "settled" /\ closures'[j].subprocess.state = "handled"
TimeoutRan(j) ==
  closures[j].timeoutId.state = "armed" /\ closures'[j].timeoutId.state = "fired"
TimedOut(j) == "timedOut" \in DOMAIN jobs[j]
ExitedWithZero(j) ==
  /\ closures[j].subprocess.state = "handled"
  /\ closures[j].subprocess.outcome.kind = "resolve"
  /\ closures[j].subprocess.outcome.exitCode = <<0>>
ResolvedAsync(name) ==
  \E i \in 1..Len(config.tools) :
    /\ config.tools[i].name = name
    /\ \/ config.tools[i].async = <<TRUE>>
       \/ config.tools[i].async = <<>> /\ config.serverAsync
ResolvedSync(name) ==
  \E i \in 1..Len(config.tools) :
    /\ config.tools[i].name = name
    /\ \/ config.tools[i].async = <<FALSE>>
       \/ config.tools[i].async = <<>> /\ ~config.serverAsync
StatusAnswer == response.tool = STATUS_TOOL

\* C1: of the completion callback and the timeout callback of a job, at most
\* one writes the terminal record: a callback that runs when the status is no
\* longer 'running' changes no field of the record, and a step that changes
\* the record is the step of exactly one of the two, taken while the status
\* is 'running'.
C1_AtMostOneFinalization ==
  [][\A j \in DOMAIN closures :
       /\ (CompletionRan(j) \/ TimeoutRan(j)) /\ jobs[j].status # "running" => jobs'[j] = jobs[j]
       /\ jobs'[j] # jobs[j] =>
            /\ jobs[j].status = "running"
            /\ CompletionRan(j) # TimeoutRan(j)]_vars

\* the completion callback has run after the timeout finalized the job
C1_Witness ==
  \E j \in DOMAIN closures :
    /\ TimedOut(j)
    /\ closures[j].timeoutId.state = "fired"
    /\ closures[j].subprocess.state = "handled"

\* C2: the status of a job changes only from running to completed or from
\* running to failed; a completed or failed status never changes again.
C2_StatusOnlyLeavesRunning ==
  [][\A j \in DOMAIN jobs :
       /\ j \in DOMAIN jobs'
       /\ jobs'[j].status # jobs[j].status =>
            jobs[j].status = "running" /\ jobs'[j].status \in Terminal]_vars

\* a failed job whose subprocess has since completed with exit code 0
C2_Witness ==
  \E j \in DOMAIN closures : jobs[j].status = "failed" /\ ExitedWithZero(j)

\* C3: result is null and completedAt is absent exactly when the status is
\* 'running'; a completed or failed job has a result record {exitCode,
\* stdout, stderr} and a completedAt.
C3_ResultIffTerminal ==
  \A j \in DOMAIN jobs :
    /\ jobs[j].status \in {"running"} \cup Terminal
    /\ jobs[j].status = "running" <=> jobs[j].result = Null
    /\ jobs[j].status = "running" <=> "completedAt" \notin DOMAIN jobs[j]
    /\ jobs[j].status \in Terminal => DOMAIN jobs[j].result = {"exitCode", "stdout", "stderr"}

\* a running job next to a job finalized by its completion callback
C3_Witness ==
  \E j, k \in DOMAIN jobs :
    /\ jobs[j].status = "running"
    /\ jobs[k].status \in Terminal
    /\ ~TimedOut(k)

\* C4: a job whose timer fired while it was running is failed, has timedOut =
\* true and the result {-1, '', 'Timed out after Nms'} for its budget N, and
\* SIGTERM was the first signal sent to its subprocess; this stays so when the
\* subprocess completes later.
C4_TimeoutFinalizes ==
  \A j \in DOMAIN closures :
    closures[j].timeoutId.state = "fired" =>
      /\ jobs[j].status = "failed"
      /\ TimedOut(j) /\ jobs[j].timedOut = TRUE
      /\ jobs[j].result = [exitCode |-> -1, stdout |-> "",
                           stderr |-> "Timed out after " \o ToString(jobs[j].timeoutMs) \o "ms"]
      /\ Len(closures[j].subprocess.kills) >= 1
      /\ closures[j].subprocess.kills[1].signal = "SIGTERM"

\* a job with a budget of 2 ms timed out, and its subprocess exited with 0 afterwards
C4_Witness ==
  \E j \in DOMAIN closures :
    /\ closures[j].timeoutId.state = "fired"
    /\ jobs[j].result.stderr = "Timed out after 2ms"
    /\ ExitedWithZero(j)

\* C5: the id in the answer of an async tool is in the registry, with status
\* 'running' and result null; a status query for the id of a job none of
\* whose callbacks has run answers 'running' with result null.
C5_IdVisibleWhenReturned ==
  /\ ResolvedAsync(response.tool) =>
       LET id == response.result.structuredContent.jobId
       IN /\ id \in DOMAIN jobs
          /\ jobs[id].status = "running"
          /\ jobs[id].result = Null
  /\ StatusAnswer /\ response.request.jobId \in DOMAIN closures =>
       LET id == response.request.jobId
       IN closures[id].subprocess.state # "handled" /\ closures[id].timeoutId.state # "fired" =>
            /\ response.result.structuredContent.status = "running"
            /\ response.result.structuredContent.result = Null
            /\ response.result.isError = FALSE

\* a status query answered for a job whose subprocess has settled but whose
\* callbacks have not run
C5_Witness ==
  /\ StatusAnswer
  /\ response.request.jobId \in DOMAIN closures
  /\ closures[response.request.jobId].subprocess.state = "settled"
  /\ closures[response.request.jobId].timeoutId.state = "armed"

\* C6: a status query for an id that is not in the registry answers
\* {jobId, status: 'failed', error: 'Job not found: <id>'} with isError true
\* and leaves the registry and the jobs' callbacks as they were.
C6_UnknownIdNotFound ==
  [][response'.tool = STATUS_TOOL /\ response'.request.jobId \notin DOMAIN jobs =>
       /\ response'.result =
            [structuredContent |->
               [jobId |-> response'.request.jobId,
                status |-> "failed",
                error |-> "Job not found: " \o response'.request.jobId],
             isError |-> TRUE]
       /\ jobs' = jobs
       /\ closures' = closures]_vars

\* the id job_0_2 was queried while only job_0_1 was in the registry
C6_Witness ==
  /\ StatusAnswer
  /\ DOMAIN jobs = {"job_0_1"}
  /\ response.request.jobId = "job_0_2"
  /\ response.result.structuredContent.error = "Job not found: job_0_2"

\* C7: every call of startTaskAsync returned an id no earlier call returned:
\* the registry holds as many ids as there were calls.
C7_DistinctIds == Cardinality(DOMAIN jobs) = jobIdCounter

\* two jobs started within the same millisecond
C7_Witness ==
  \E j, k \in DOMAIN jobs : j # k /\ jobs[j].startedAt = jobs[k].startedAt

\* C8: once the tools are registered, a tool that declares async: true has the
\* async handler and one that declares async: false the sync handler, whatever
\* the server default is; a tool that declares none has the async handler
\* exactly when the server default is true.
C8_ToolFlagOverridesDefault ==
  pc = "serving" =>
    \A i \in 1..Len(config.tools) :
      LET tool == config.tools[i]
      IN /\ tool.async = <<TRUE>> => IsRegistered(tool.name, "job-handle")
         /\ tool.async = <<FALSE>> => IsRegistered(tool.name, "direct-result")
         /\ tool.async = <<>> /\ config.serverAsync => IsRegistered(tool.name, "job-handle")
         /\ tool.async = <<>> /\ ~config.serverAsync => IsRegistered(tool.name, "direct-result")

\* a server whose default is async, with a tool that declares async: false
C8_Witness ==
  /\ pc = "serving"
  /\ config.serverAsync
  /\ \E i \in 1..Len(config.tools) : config.tools[i].async = <<FALSE>>

\* C9: the answer of a tool whose resolved async flag is false is the
\* {exitCode, stdout, stderr} of the command it ran (-1 when the command
\* reported no exit code or could not be run), and isError is true exactly
\* when exitCode is not 0.
C9_SyncAnswer ==
  ResolvedSync(response.tool) =>
    LET sc == response.result.structuredContent
        outcome == response.command
    IN /\ DOMAIN sc = {"exitCode", "stdout", "stderr"}
       /\ response.result.isError <=> sc.exitCode # 0
       /\ outcome.kind = "resolve" /\ outcome.exitCode # <<>> => sc.exitCode = outcome.exitCode[1]
       /\ outcome.kind = "resolve" /\ outcome.exitCode = <<>> => sc.exitCode = -1
       /\ outcome.kind = "resolve" /\ outcome.stdout # <<>> => sc.stdout = outcome.stdout[1]
       /\ outcome.kind = "reject" => sc = [exitCode |-> -1, stdout |-> "", stderr |-> outcome.message]

\* a sync tool answered for a command that reported no exit code
C9_Witness ==
  /\ ResolvedSync(response.tool)
  /\ response.command.kind = "resolve"
  /\ response.command.exitCode = <<>>
  /\ response.result.isError

\* C10 as stated: an async tool answers with the job handle while the
\* subprocess is still running, and once the subprocess has exited with code 0
\* a status query answers 'completed' with the captured stdout.
C10_Original ==
  /\ ResolvedAsync(response.tool) =>
       /\ DOMAIN response.result.structuredContent = {"jobId", "status", "message"}
       /\ response.result.structuredContent.status = "running"
       /\ response.result.isError = FALSE
       /\ closures[response.result.structuredContent.jobId].subprocess.state = "running"
  /\ StatusAnswer /\ response.request.jobId \in DOMAIN closures =>
       LET id == response.request.jobId
       IN ExitedWithZero(id) =>
            /\ response.result.structuredContent.status = "completed"
            /\ response.result.structuredContent.result.stdout =
                 Coalesce(closures[id].subprocess.outcome.stdout, "")

\* C10 amended: the same, for a job that the timeout has not finalized before
\* its subprocess completed.
C10_CompletedUnlessTimedOut ==
  /\ ResolvedAsync(response.tool) =>
       /\ DOMAIN response.result.structuredContent = {"jobId", "status", "message"}
       /\ response.result.structuredContent.status = "running"
       /\ response.result.isError = FALSE
       /\ closures[response.result.structuredContent.jobId].subprocess.state = "running"
  /\ StatusAnswer /\ response.request.jobId \in DOMAIN closures =>
       LET id == response.request.jobId
       IN ExitedWithZero(id) /\ ~TimedOut(id) =>
            /\ response.result.structuredContent.status = "completed"
            /\ response.result.structuredContent.result.stdout =
                 Coalesce(closures[id].subprocess.outcome.stdout, "")

\* the tool bg (async: true) on a server whose default is sync: a status query
\* answered 'completed' with the stdout of the command
C10_Witness ==
  /\ StatusAnswer
  /\ ~config.serverAsync
  /\ response.request.jobId \in DOMAIN jobs
  /\ jobs[response.request.jobId].toolName = "bg"
  /\ response.result.structuredContent.status = "completed"
  /\ response.result.structuredContent.result.stdout = "out"

\* what the subprocess of job j reported when its promise settled
Reported(j) == closures[j].subprocess.outcome
\* job j was finalized by its completion handler, not by its timeout
FinalizedByCompletion(j) == jobs[j].status \in Terminal /\ ~TimedOut(j)

\* C11: a job finalized by the natural completion of its subprocess is
\* 'completed' exactly when the subprocess reported exit code 0 and 'failed'
\* otherwise; a missing exit code is stored as -1 (hence 'failed'); the result
\* holds the reported exit code, stdout and stderr.
C11_CompletionStatusFromExitCode ==
  \A j \in DOMAIN closures :
    FinalizedByCompletion(j) =>
      /\ closures[j].subprocess.state = "handled"
      /\ jobs[j].status = "completed" <=>
           Reported(j).kind = "resolve" /\ Reported(j).exitCode = <<0>>
      /\ Reported(j).kind = "resolve" =>
           /\ Reported(j).exitCode # <<>> => jobs[j].result.exitCode = Reported(j).exitCode[1]
           /\ Reported(j).exitCode = <<>> => jobs[j].result.exitCode = -1
           /\ Reported(j).stdout # <<>> => jobs[j].result.stdout = Reported(j).stdout[1]
           /\ Reported(j).stderr # <<>> => jobs[j].result.stderr = Reported(j).stderr[1]

\* a job whose subprocess reported no exit code was finalized by its
\* completion handler as failed with exit code -1
C11_Witness ==
  \E j \in DOMAIN closures :
    /\ FinalizedByCompletion(j)
    /\ Reported(j).kind = "resolve" /\ Reported(j).exitCode = <<>>
    /\ jobs[j].status = "failed" /\ jobs[j].result.exitCode = -1

\* a sync handler has just returned what executeTask resolved to
ExecuteTaskAnswer == "command" \in DOMAIN response

\* C12: whatever the spawned command did, executeTask resolved to a record of
\* exactly exitCode (an integer), stdout and stderr (strings); when running
\* the command raised an error the record is {-1, '', <the error message>},
\* and values the command did not report become -1 and ''.
C12_ExecuteTaskAlwaysResolves ==
  ExecuteTaskAnswer =>
    LET r == response.result.structuredContent
        o == response.command
    IN /\ DOMAIN r = {"exitCode", "stdout", "stderr"}
       /\ r.exitCode \in Int
       /\ r.stdout \in STRING /\ r.stderr \in STRING
       /\ o.kind = "reject" => r = [exitCode |-> -1, stdout |-> "", stderr |-> o.message]
       /\ o.kind = "resolve" /\ o.exitCode = <<>> /\ o.stdout = <<>> /\ o.stderr = <<>> =>
            r = [exitCode |-> -1, stdout |-> "", stderr |-> ""]

\* the command could not be spawned and executeTask resolved to the error record
C12_Witness ==
  /\ ExecuteTaskAnswer
  /\ response.command.kind = "reject"
  /\ response.result.structuredContent.exitCode = -1
  /\ response.result.structuredContent.stderr = "spawn ENOENT"

\* the text without leading and trailing white space
RECURSIVE TrimRight(_)
TrimRight(s) == IF s # <<>> /\ IsSpace(s[Len(s)]) THEN TrimRight(SubSeq(s, 1, Len(s) - 1)) ELSE s
Trim(s) == TrimRight(SkipSpace(s))
Unsigned(s) == IF s # <<>> /\ s[1] \in {"-", "+"} THEN Tail(s) ELSE s
\* the text is a decimal integer: an optional sign and one or more digits
IsNumeral(s) ==
  /\ Unsigned(Trim(s)) # <<>>
  /\ \A i \in 1..Len(Unsigned(Trim(s))) : IsDigit(Unsigned(Trim(s))[i])
RECURSIVE Decimal(_)
Decimal(s) == IF s = <<>> THEN 0 ELSE Decimal(SubSeq(s, 1, Len(s) - 1)) * 10 + DigitVal(s[Len(s)])
NumeralValue(s) == (IF Trim(s)[1] = "-" THEN -1 ELSE 1) * Decimal(Unsigned(Trim(s)))
ResolveAnswer == response.tool = "resolveJobTimeoutMs"

\* C14: resolveJobTimeoutMs returns the value of the environment variable
\* when it is a positive integer, and 1,200,000 when the variable is missing,
\* is not a number, or is zero or negative.
C14_Original ==
  ResolveAnswer =>
    /\ env = <<>> => response.result = 1200000
    /\ env # <<>> /\ IsNumeral(env[1]) /\ NumeralValue(env[1]) > 0 =>
         response.result = NumeralValue(env[1])
    /\ env # <<>> /\ IsNumeral(env[1]) /\ NumeralValue(env[1]) <= 0 => response.result = 1200000
    /\ env # <<>> /\ ~IsNumeral(env[1]) => response.result = 1200000

Kills(j) == closures[j].subprocess.kills

C16_Original ==
  /\ pc # "crashed"
  /\ \A j \in DOMAIN closures :
       Len(Kills(j)) >= 1 =>
         /\ closures[j].killTimer.state \in {"armed", "fired"}
         /\ jobs[j].status = "failed" /\ TimedOut(j)

\* C17: a status query changes neither the registry nor anything else a job
\* depends on, and a query that directly follows a query for the same id (no
\* callback in between) returns the same answer.
C17_StatusQueryReadOnly ==
  [][response'.tool = STATUS_TOOL =>
       /\ jobs' = jobs
       /\ closures' = closures
       /\ jobIdCounter' = jobIdCounter
       /\ StatusAnswer /\ response'.request = response.request =>
            response'.result = response.result]_vars

\* a status query answered with the snapshot of a job that timed out
C17_Witness ==
  /\ StatusAnswer
  /\ response.request.jobId \in DOMAIN jobs
  /\ TimedOut(response.request.jobId)
  /\ response.result.structuredContent.status = "failed"

\* C18: the answer to a status query tells an unknown id from a stored job:
\* the answer carries an `error` text exactly when the id is not in the
\* registry, and the snapshot of a stored job (running, completed, failed or
\* timed out) carries toolName, startedAt and result instead; no stored job is
\* answered with the not-found response.
C18_NotFoundDistinct ==
  /\ StatusAnswer =>
       LET sc == response.result.structuredContent
           stored == response.request.jobId \in DOMAIN jobs
       IN /\ "error" \in DOMAIN sc <=> ~stored
          /\ {"toolName", "startedAt", "result"} \subseteq DOMAIN sc <=> stored
          /\ {"toolName", "startedAt", "result"} \cap DOMAIN sc = {} <=> ~stored
  /\ \A j \in DOMAIN jobs :
       \A id \in QueryIds \cup DOMAIN jobs : checkJobStatus(j) # NotFoundResponse(id)

\* a stored job that failed by its exit code is answered with status 'failed'
\* and isError, as an unknown id is
C18_Witness ==
  /\ StatusAnswer
  /\ response.request.jobId \in DOMAIN jobs
  /\ ~TimedOut(response.request.jobId)
  /\ response.result.structuredContent.status = "failed"
  /\ response.result.isError

\* C19: kill is called on the subprocess of a job only in a timer callback,
\* and only when the timeout has finalized that job (failed, timedOut); the
\* completion handler that finalizes a job cancels its timer, and the
\* subprocess of such a job is never signalled; a step that answers a caller
\* (a tool invocation or a status query) changes no stored job and signals no
\* subprocess.
C19_OnlyTimeoutTerminates ==
  [][\A j \in DOMAIN closures :
       /\ closures'[j].subprocess.kills # closures[j].subprocess.kills =>
            /\ response' = NoResponse
            /\ jobs'[j].status = "failed"
            /\ "timedOut" \in DOMAIN jobs'[j] /\ jobs'[j].timedOut = TRUE
       /\ CompletionRan(j) /\ jobs[j].status = "running" =>
            /\ closures'[j].timeoutId.state = "cleared"
            /\ closures'[j].subprocess.kills = <<>>
       /\ FinalizedByCompletion(j) =>
            /\ closures'[j].subprocess.kills = <<>>
            /\ closures'[j].timeoutId.state = "cleared"
       /\ response' # NoResponse =>
            /\ jobs'[j] = jobs[j]
            /\ closures'[j] = closures[j]]_vars

\* one job was finalized by its completion handler, its timer cancelled and
\* its subprocess never signalled, and another job timed out and was signalled
C19_Witness ==
  \E j, k \in DOMAIN closures :
    /\ FinalizedByCompletion(j)
    /\ closures[j].timeoutId.state = "cleared"
    /\ Kills(j) = <<>>
    /\ TimedOut(k)
    /\ Len(Kills(k)) >= 1

\* C20: on a server started with --async, the one response to a tool
\* invocation carries {exitCode, stdout, stderr} and is delivered only when
\* the background job is completed or failed, so that the client needs no
\* second request.
C20_Original ==
  config.serverAsync /\ response.tool \in ToolNames =>
    /\ DOMAIN response.result.structuredContent = {"exitCode", "stdout", "stderr"}
    /\ \A j \in DOMAIN jobs : jobs[j].toolName = response.tool => jobs[j].status \in Terminal

\* C21: the argument list handed to the external command by executeTask and
\* by startTaskAsync is: "--model", <modelId> in front exactly when a
\* (non-empty) model id is configured, then the base arguments of the model
\* in order, then the task as the last argument; the command is the model's,
\* and one call spawns one process.
C21_ArgumentList ==
  response.tool \in {"executeTask", "startTaskAsync"} =>
    LET calls == response.result
        a == calls[1].args
        given == config.modelId # <<>> /\ config.modelId # <<"">>
        off == IF given THEN 2 ELSE 0
        base == CLI_CONFIG[config.model].baseArgs
    IN /\ Len(calls) = 1
       /\ calls[1].command = config.model
       /\ Len(a) = off + Len(base) + 1
       /\ given => a[1] = "--model" /\ a[2] = config.modelId[1]
       /\ \A i \in 1..Len(base) : a[off + i] = base[i]
       /\ a[Len(a)] = response.request.task

\* startTaskAsync('gemini', 'gemini-pro', 'test prompt', ...) called execa with
\* ['--model', 'gemini-pro', '-y', '-p', 'test prompt']
C21_Witness ==
  /\ response.tool = "startTaskAsync"
  /\ response.result[1] = [command |-> "gemini",
                           args |-> <<"--model", "gemini-pro", "-y", "-p", "test prompt">>]

\* the entries of `registered` for the tool called name
Registrations(name) == { i \in 1..Len(registered) : registered[i].name = name }

\* C22: once main has registered the tools, every configured tool is
\* registered exactly once, with the job-handle shape when its resolved async
\* flag is true and the direct-result shape when it is false, and nothing
\* else is registered but check-job-status; registerConfiguredTools returned
\* true (main then registers check-job-status) exactly when some tool
\* resolved to async.
C22_EveryToolRegisteredOnce ==
  pc = "serving" =>
    /\ \A i \in 1..Len(config.tools) :
         LET name == config.tools[i].name
         IN /\ Cardinality(Registrations(name)) = 1
            /\ ResolvedAsync(name) => \A k \in Registrations(name) : registered[k].shape = "job-handle"
            /\ ResolvedSync(name) => \A k \in Registrations(name) : registered[k].shape = "direct-result"
    /\ \A k \in 1..Len(registered) :
         registered[k].name # STATUS_TOOL => \E i \in 1..Len(config.tools) : config.tools[i].name = registered[k].name
    /\ Registrations(STATUS_TOOL) # {} <=> \E i \in 1..Len(config.tools) : ResolvedAsync(config.tools[i].name)

\* a server started with --async holds a sync tool (async: false) next to an
\* async tool (no flag of its own)
C22_Witness ==
  /\ pc = "serving"
  /\ config.serverAsync
  /\ IsRegistered("fg", "direct-result")
  /\ IsRegistered("plain", "job-handle")

LoggingAnswer == response.tool = "resolveLoggingConfig"

\* the overrides each source contributes after normalisation, highest
\* precedence first: CLI arguments, environment, configuration file, defaults
LoggingSources ==
  << normalizeLoggingOverrides(config.loggingArgs),
     normalizeLoggingOverrides(envOverrides(env)),
     normalizeLoggingOverrides(config.logging),
     DEFAULT_LOGGING >>
Winner(s) ==
  LET i == CHOOSE i \in 1..4 : /\ s \in DOMAIN LoggingSources[i]
                               /\ \A k \in 1..(i - 1) : s \notin DOMAIN LoggingSources[k]
  IN LoggingSources[i][s]

\* C23 as stated: every setting of the resolved configuration, `enabled`
\* included, is the value of the highest-precedence source that gives a valid
\* one.
C23_Original ==
  LoggingAnswer => \A s \in Settings : response.result.server[s] = Winner(s)

\* C23 (amended): every setting other than `enabled` is the valid value of the
\* highest-precedence source (CLI over environment over configuration file
\* over default), an invalid or absent value leaving the next level in place;
\* `enabled` follows the same precedence unless --no-logging is given or the
\* resolved level is "off", and is false in those two cases.
C23_PrecedenceExceptSwitchedOff ==
  LoggingAnswer =>
    LET resolved == response.result.server
    IN /\ \A s \in Settings \ {"enabled"} : resolved[s] = Winner(s)
       /\ resolved.enabled = IF config.logDisabled \/ resolved.level = "off"
                               THEN FALSE ELSE Winner("enabled")
C23_Witness ==
  /\ LoggingAnswer
  /\ config.loggingArgs.level = <<"loud">>
  /\ env.level = <<" DEBUG ">>
  /\ config.logging.level = <<"warn">>
  /\ response.result.server.level = "debug"

\* C24: with --no-logging the resolved configuration of the server and of the
\* tool both have enabled = false, whatever the configuration file, the
\* environment or the tool's own logging section say.
C24_NoLoggingDisablesAll ==
  (LoggingAnswer /\ config.logDisabled) =>
    /\ response.result.server.enabled = FALSE
    /\ response.result.tool.enabled = FALSE
C24_Witness ==
  /\ LoggingAnswer
  /\ config.logDisabled
  /\ config.logging.enabled = <<TRUE>>
  /\ env.enabled = <<"TRUE">>
  /\ config.toolLogging.enabled = <<TRUE>>
  /\ response.result.tool.enabled = FALSE

PromptAnswer == response.tool = "buildTaskPrompt"

FirstStringInput(inputs) ==
  LET i == CHOOSE i \in 1..Len(inputs) : /\ inputs[i].type = "string"
                                         /\ \A k \in 1..(i - 1) : inputs[k].type # "string"
  IN inputs[i]
ExpectedTask(hasTemplate) ==
  LET inputs == config.tool.inputs
      params == response.request
  IN IF hasTemplate THEN substitutePromptVariables(config.toolPromptTemplate, params)
     ELSE IF \E i \in 1..Len(inputs) : inputs[i].type = "string"
            THEN ParamText(params, FirstStringInput(inputs).name)
            ELSE JSONStringify(inputs, params)
ExpectedPrompt(prefixGiven, hasTemplate) ==
  IF prefixGiven THEN config.promptPrefix[1] \o "\n" \o ExpectedTask(hasTemplate)
  ELSE ExpectedTask(hasTemplate)

\* C25 as stated: the substituted template whenever the tool has a template
\* (also an empty one), else the first string input's value, else the JSON
\* text of the parameters; prefix and newline in front whenever a prefix is
\* given (also an empty one).
C25_Original ==
  PromptAnswer =>
    response.result = ExpectedPrompt(config.promptPrefix # <<>>, config.toolPromptTemplate # <<>>)

\* C25 (amended): the substituted template when the tool has a non-empty
\* prompt template; otherwise the value of the first input declared with type
\* string (the empty text when that parameter is absent); otherwise the JSON
\* text of the parameters; preceded by the prefix and a newline when a
\* non-empty prefix is given, unprefixed otherwise.
C25_TaskPrompt ==
  PromptAnswer =>
    response.result = ExpectedPrompt(config.promptPrefix # <<>> /\ config.promptPrefix[1] # "",
                                     config.toolPromptTemplate # <<>> /\ config.toolPromptTemplate[1] # <<>>)
C25_Witness ==
  /\ PromptAnswer
  /\ config.toolPromptTemplate = <<>>
  /\ config.promptPrefix = <<"Prefix">>
  /\ Len(config.tool.inputs) = 3
  /\ response.request = [count |-> [num |-> 2], query |-> [str |-> "Ada"], name |-> [str |-> ""]]
  /\ response.result = "Prefix\nAda"

Rejected(j) == Reported(j) # Null /\ Reported(j).kind = "reject"
Handled(j) == closures[j].subprocess.state = "handled"

\* C26: once the handler of a rejected subprocess promise has run for a job
\* the timeout had not finalized, the job is failed with result
\* {exitCode: -1, stdout: "", stderr: <error message>}; a job the timeout
\* finalized first stays failed; and the server has crashed only if a kill
\* call threw, never because of the rejection.
C26_RejectionFinalizesAsFailed ==
  /\ \A j \in DOMAIN jobs :
       (Rejected(j) /\ Handled(j)) =>
         /\ jobs[j].status = "failed"
         /\ ~TimedOut(j) =>
              jobs[j].result = [exitCode |-> -1, stdout |-> "", stderr |-> Reported(j).message]
  /\ pc = "crashed" =>
       \E j \in DOMAIN jobs : \E i \in 1..Len(Kills(j)) : Kills(j)[i].threw
C26_Witness ==
  \E j \in DOMAIN jobs :
    /\ Rejected(j) /\ Handled(j) /\ ~TimedOut(j)
    /\ jobs[j].status = "failed"
    /\ jobs[j].result.stderr = "spawn ENOENT"
    /\ pc # "crashed"

\* the timeout callback found the job running and finalized it
FinalizedByTimeout(j) ==
  closures[j].timeoutId.state = "fired" /\ Kills(j) # <<>> /\ Kills(j)[1].signal = "SIGTERM"
\* finalizeJob found the job running, cleared the timer and finalized it
FinalizedNaturally(j) == Handled(j) /\ closures[j].timeoutId.state = "cleared"

\* C27: a job carries timedOut only with the value true and only when the
\* timeout callback finalized it, and then it is failed with exit code -1; a
\* job finalized by the completion handler, completed or failed, carries no
\* timedOut.
C27_TimedOutOnlyByTimeout ==
  \A j \in DOMAIN jobs :
    /\ TimedOut(j) =>
         /\ jobs[j].timedOut = TRUE
         /\ FinalizedByTimeout(j)
         /\ jobs[j].status = "failed"
         /\ jobs[j].result.exitCode = -1
    /\ FinalizedNaturally(j) => (jobs[j].status \in Terminal /\ ~TimedOut(j))
C27_Witness ==
  \E j, k \in DOMAIN jobs :
    /\ TimedOut(j) /\ jobs[j].status = "failed" /\ jobs[j].result.exitCode = -1
    /\ FinalizedNaturally(k) /\ jobs[k].status = "failed" /\ ~TimedOut(k)

CreationFields == {"timeoutMs", "toolName", "startedAt"}
CreationFieldsKept ==
  \A j \in DOMAIN jobs' :
    IF j \in DOMAIN jobs
      THEN \A f \in CreationFields : jobs'[j][f] = jobs[j][f]
      ELSE jobs'[j].timeoutMs = resolveJobTimeoutMs(env)

\* C28: a step that creates a job gives it the budget resolved from the
\* environment of that moment as timeoutMs, and every step (finalization,
\* timeout, status query, change of the environment override, any other)
\* leaves timeoutMs, toolName and startedAt of every existing job unchanged.
C28_CreationFieldsFixed == [][CreationFieldsKept]_vars
C28_Witness ==
  \E j \in DOMAIN jobs :
    /\ jobs[j].status \in Terminal
    /\ jobs[j].timeoutMs = 2
    /\ resolveJobTimeoutMs(env) = DEFAULT_JOB_TIMEOUT_MS

EscalationRan(j) ==
  closures[j].killTimer.state = "armed" /\ closures'[j].killTimer.state = "fired"
CallbackRan(j) == CompletionRan(j) \/ TimeoutRan(j) \/ EscalationRan(j)
OtherJobsKept ==
  \A j \in DOMAIN closures :
    CallbackRan(j) =>
      /\ \A k \in DOMAIN jobs \ {j} : k \in DOMAIN jobs' /\ jobs'[k] = jobs[k]
      /\ \A k \in DOMAIN closures \ {j} : ~CallbackRan(k)
      /\ \A f \in DOMAIN jobs[j] \ {"status", "result"} : jobs'[j][f] = jobs[j][f]

\* C29: a step in which a callback of one job runs (completion, timeout or
\* kill escalation) leaves the record of every other job as it was, runs no
\* callback of another job, and writes the job's own record from the record
\* it read in that step (every field but status and result is kept).
C29_CallbacksTouchOwnJobOnly == [][OtherJobsKept]_vars
C29_Witness ==
  \E j, k \in DOMAIN jobs :
    /\ j # k
    /\ Handled(j) /\ jobs[j].status = "completed"
    /\ TimedOut(k) /\ jobs[k].startedAt = jobs[j].startedAt

RegistryKept ==
  /\ DOMAIN jobs \subseteq DOMAIN jobs'
  /\ DOMAIN closures' \subseteq DOMAIN jobs'
  /\ \A j \in DOMAIN jobs : jobs[j].status \in Terminal => jobs'[j] = jobs[j]

\* C30: no step removes an id from the registry; every id startTaskAsync has
\* handed out is in the registry after the step; and a record that is final
\* (completed or failed) is the same record after every later step, so a
\* status query at any later time finds it.
C30_RegistryOnlyGrows == [][RegistryKept]_vars
C30_Witness ==
  /\ Cardinality(DOMAIN jobs) = MaxJobs
  /\ StatusAnswer
  /\ \E j \in DOMAIN jobs :
       /\ jobs[j].status \in Terminal
       /\ response.request.jobId = j
       /\ response.result.structuredContent.status = jobs[j].status
       /\ response.result.structuredContent.result = jobs[j].result

SnapshotFields == {"jobId", "status", "toolName", "startedAt", "completedAt", "result"}

\* C32: the answer to a status query for a stored job has exactly the fields
\* jobId, status, toolName, startedAt, completedAt and result, each with the
\* value of the job's record (completedAt undefined while it has none);
\* isError is true exactly when the status is 'failed'; timedOut is no field
\* of the answer, and a timed-out job is answered as failed.
C32_SnapshotShape ==
  (StatusAnswer /\ response.request.jobId \in DOMAIN jobs) =>
    LET job == jobs[response.request.jobId]
        snapshot == response.result.structuredContent
    IN /\ DOMAIN snapshot = SnapshotFields
       /\ snapshot.jobId = response.request.jobId
       /\ snapshot.status = job.status
       /\ snapshot.toolName = job.toolName
       /\ snapshot.startedAt = job.startedAt
       /\ snapshot.completedAt = Field(job, "completedAt")
       /\ snapshot.result = job.result
       /\ response.result.isError = (job.status = "failed")
       /\ "timedOut" \in DOMAIN job => (snapshot.status = "failed" /\ response.result.isError)
C32_Witness ==
  /\ StatusAnswer
  /\ response.request.jobId \in DOMAIN jobs
  /\ TimedOut(response.request.jobId)
  /\ response.result.isError
  /\ response.result.structuredContent.result.stderr = "Timed out after 2ms"

\* C33: every job in the registry has timeoutMs > 0, whatever text the
\* environment override holds (unset, empty, non-numeric, zero, negative),
\* and its timeout timer is armed when the job has been created.
C33_BudgetPositiveTimerArmed ==
  \A j \in DOMAIN jobs :
    /\ jobs[j].timeoutMs > 0
    /\ closures[j].timeoutId.state = "armed"
    /\ closures[j].timeoutId.deadline = now + jobs[j].timeoutMs
C33_Witness ==
  /\ env \in { << <<"-", "3">> >>, << <<"0">> >>, << <<"x">> >> }
  /\ \E j \in DOMAIN jobs :
       /\ jobs[j].timeoutMs = DEFAULT_JOB_TIMEOUT_MS
       /\ closures[j].timeoutId.state = "armed"

StatusTools == { i \in 1..Len(registered) : registered[i].shape = "job-snapshot" }
SomeToolAsync == \E i \in 1..Len(config.tools) : ResolvedAsync(config.tools[i].name)

\* C35: once main has registered the tools, the server exposes exactly one
\* status-query tool, named check-job-status, when at least one configured
\* tool resolves to async, and none when every tool resolves to sync.
C35_StatusToolIffAsync ==
  pc = "serving" =>
    /\ Cardinality(StatusTools) = IF SomeToolAsync THEN 1 ELSE 0
    /\ Registrations(STATUS_TOOL) = StatusTools
C35_Witness ==
  /\ pc = "serving"
  /\ ~config.serverAsync
  /\ ResolvedAsync("bg") /\ ResolvedSync("plain")
  /\ Cardinality(StatusTools) = 1

\* a step of a sync tool invocation: the handler starts and suspends in
\* `await executeTask`, or the command has finished and the handler answers
SyncStep == syncCalls' # syncCalls
SyncFrame ==
  SyncStep =>
    /\ jobs' = jobs
    /\ jobIdCounter' = jobIdCounter
    /\ closures' = closures
    /\ now' = now

\* C37: the steps of a synchronous tool invocation (its start and its
\* answer) leave the registry, the job id counter and every job's timers and
\* signals as they were: no job record, timer or kill call comes from it.
C37_SyncInvocationFrame == [][SyncFrame]_vars
C37_Witness ==
  /\ response.tool \in ToolNames
  /\ "command" \in DOMAIN response
  /\ response.result.structuredContent.exitCode = 0
  /\ \E j \in DOMAIN jobs : TimedOut(j) /\ now >= jobs[j].timeoutMs

\* the closure as it would be had startTaskAsync got the other value of logger
OtherLogger(c) == [c EXCEPT !.logger = ~@]
\* the part of a closure the job lifecycle consists of: timers, subprocess, signals
Lifecycle(c) == [c EXCEPT !.logger = FALSE, !.events = <<>>]
SameLifecycle(a, b) == a.write = b.write /\ Lifecycle(a.closure) = Lifecycle(b.closure)

\* C31: in every reachable state and for every job, each step of the
\* lifecycle (the start, the timeout callback, finalizeJob with any outcome)
\* writes the same record, leaves the same timers and sends the same signals
\* whether the job's logger is a logger or null; the timeout callback raises
\* an exception under the same condition in both cases, namely only when the
\* kill call throws; and the process has crashed only if a kill call threw.
C31_LifecycleIgnoresLogger ==
  /\ \A j \in DOMAIN closures :
       LET c == closures[j]
       IN /\ \A threw \in BOOLEAN :
               LET with == timeoutCallback(j, c, now, threw)
                   other == timeoutCallback(j, OtherLogger(c), now, threw)
               IN /\ SameLifecycle(with, other)
                  /\ with.crashed = other.crashed
                  /\ with.crashed => threw
          /\ \A o \in Outcomes :
               SameLifecycle(finalizeJobOf(j, c, CompletionStatus(o), CompletionResult(o)),
                             finalizeJobOf(j, OtherLogger(c), CompletionStatus(o), CompletionResult(o)))
          /\ Lifecycle(NewClosure(c.toolName, c.timeoutMs, TRUE))
               = Lifecycle(NewClosure(c.toolName, c.timeoutMs, FALSE))
  /\ pc = "crashed" =>
       \E j \in DOMAIN closures : \E i \in 1..Len(Kills(j)) : Kills(j)[i].threw
C31_Witness ==
  \E j, k \in DOMAIN jobs :
    /\ closures[j].logger /\ ~closures[k].logger
    /\ TimedOut(j) /\ TimedOut(k)
    /\ jobs[j].result = jobs[k].result
    /\ Kills(j) = Kills(k)
    /\ pc # "crashed"

Event(level, message) == [level |-> level, message |-> message]
Events(j) == closures[j].events

\* C36: the calls a job's logger has received are: job_started first, then
\* nothing while the job runs; job_timed_out as the one further event when
\* the timeout callback finalized the job; job_finished as the one further
\* event (info when completed, warn when failed) when finalizeJob did; never
\* both, and nothing more when the other callback runs later as a no-op.  A
\* job started with null has no events.
C36_OneStartOneTerminalEvent ==
  \A j \in DOMAIN jobs :
    IF ~closures[j].logger THEN Events(j) = <<>>
    ELSE /\ jobs[j].status = "running" => Events(j) = << Event("info", "job_started") >>
         /\ TimedOut(j) =>
              Events(j) = << Event("info", "job_started"), Event("warn", "job_timed_out") >>
         /\ (jobs[j].status = "completed" /\ ~TimedOut(j)) =>
              Events(j) = << Event("info", "job_started"), Event("info", "job_finished") >>
         /\ (jobs[j].status = "failed" /\ ~TimedOut(j)) =>
              Events(j) = << Event("info", "job_started"), Event("warn", "job_finished") >>
C36_Witness ==
  \E j \in DOMAIN jobs :
    /\ closures[j].logger
    /\ TimedOut(j) /\ Handled(j)
    /\ Events(j) = << Event("info", "job_started"), Event("warn", "job_timed_out") >>

TerminalSeen(jobId) ==
  /\ StatusAnswer
  /\ response.request.jobId = jobId
  /\ response.result.structuredContent.status \in Terminal

\* every job in the registry eventually has status completed or failed
LeftRunning(jobId) == jobId \in DOMAIN jobs /\ jobs[jobId].status \in Terminal
EveryJobLeavesRunning ==
  \A jobId \in LiveIds : (jobId \in DOMAIN jobs) ~> LeftRunning(jobId)

\* C34 as stated: every job eventually leaves 'running', and the caller that
\* keeps polling a job's id eventually gets an answer with a terminal status.
C34_Original ==
  \A jobId \in LiveIds :
    (jobId \in DOMAIN jobs) ~> (LeftRunning(jobId) /\ TerminalSeen(jobId))

====
